---- MODULE Spec2Model ----
(***************************************************************************)
(* pkg/retry: RetryIfNecessary (exponential backoff loop) and isRetryable  *)
(* (recursive classification of an error value).                           *)
(*                                                                         *)
(* An error value is a record [t, c, k]: t is the dynamic type, c the code *)
(* of a coded or errno error, k the sequence of errors it holds (the inner *)
(* error of a wrapper, the members of an aggregate, empty for a leaf).     *)
(***************************************************************************)
EXTENDS Integers, Sequences, FiniteSets, TLC

VARIABLES
    MaxRetry,      \* retryOptions.MaxRetry
    opFails,       \* the operation: how many leading invocations fail (-1: all)
    pc,            \* position of RetryIfNecessary
    attempt,       \* loop counter
    err,           \* local variable err
    ret,           \* value returned by RetryIfNecessary
    delay,         \* local variable delay (a time.Duration)
    ctxDone,       \* ctx.Done() is closed
    invoked,       \* history: invocations of operation started
    inflight,      \* history: invocations started and not yet returned
    notices,       \* history: calls of logrus.Infof
    waits,         \* history: selects entered
    lastRes,       \* history: result of the most recent invocation
    allRetry,      \* history: every failure returned so far is a retryable error
    sameRes,       \* history: every invocation so far returned the same value
    firedAt,       \* history: pc at which the cancellation signal fired
    invokedAtFire, \* history: invoked when the cancellation signal fired
    cancelRet,     \* history: RetryIfNecessary returned from the ctx.Done() case
    verdict,       \* history: result of the most recent call of isRetryable
    cerr,          \* classifier run: the error value handed to isRetryable
    steps          \* classifier run: construction steps that built cerr

vars == <<MaxRetry, opFails, pc, attempt, err, ret, delay, ctxDone, invoked,
          inflight, notices, waits, lastRes, allRetry, sameRes, firedAt, invokedAtFire,
          cancelRet, verdict, cerr, steps>>

loopVars == <<MaxRetry, opFails, pc, attempt, err, ret, delay, ctxDone, invoked,
              inflight, notices, waits, lastRes, allRetry, sameRes, firedAt, invokedAtFire,
              cancelRet>>

----------------------------------------------------------------------------
(* Bounds of the model *)

MaxRetryBound == 36   \* MaxRetry ranges over -1 .. MaxRetryBound
MaxFails == 3         \* an operation fails 0 .. MaxFails times and then succeeds, or always
MaxSteps == 4         \* construction steps of an error value
MaxMembers == 3       \* members of an aggregate

----------------------------------------------------------------------------
(* Error values *)

Leaf(t, c) == [t |-> t, c |-> c, k |-> <<>>]
Node(t, ms) == [t |-> t, c |-> "", k |-> ms]

Nil == Leaf("nil", "")                      \* the nil error
NoValue == Leaf("none", "")                 \* no value yet (not a Go value)
Canceled == Leaf("ctx", "Canceled")         \* context.Canceled
DeadlineExceeded == Leaf("ctx", "DeadlineExceeded")
EOF == Leaf("eof", "")                      \* io.EOF
Plain == Leaf("plain", "")                  \* errors.New(...): no recognized shape
Coded(c) == Leaf("coded", c)                \* errcode.Error{Code: c}
Errno(c) == Leaf("errno", c)                \* syscall.Errno
OpError(e) == Node("op", <<e>>)             \* &net.OpError{Err: e}
URLError(e) == Node("url", <<e>>)           \* &url.Error{Err: e}
Errors(ms) == Node("errs", ms)              \* errcode.Errors
MultiError(ms) == Node("multi", ms)         \* &multierror.Error{Errors: ms}
WithCause(e) == Node("cause", <<e>>)        \* has Cause() (pkg/errors wrapper)
Wrapped(e) == Node("wrap", <<e>>)           \* has Unwrap() only (fmt.Errorf %w)

PermanentCodes == {"UNAUTHORIZED", "NAME_UNKNOWN", "MANIFEST_UNKNOWN"}
Codes == PermanentCodes \cup {"DENIED", "TOOMANYREQUESTS"}
Errnos == {"ECONNREFUSED", "ECONNRESET", "ETIMEDOUT"}

----------------------------------------------------------------------------
(* isRetryable *)

RECURSIVE Cause(_)
RECURSIVE isRetryable(_)
RECURSIVE AllRetryable(_, _)

\* Mutant: only one level of causal wrapping is removed.
Cause_OneLevel(e) == IF e.t = "cause" THEN e.k[1] ELSE e

\* errors.Cause: follow Cause() while the error has it.
Cause(e) == IF e.t = "cause" THEN Cause(e.k[1]) ELSE e

\* Mutant: the manifest-unknown code is missing from the switch.
CodedRetryable_TwoCodes(e) == e.c \notin {"UNAUTHORIZED", "NAME_UNKNOWN"}

\* case errcode.Error: the switch on e.Code.
CodedRetryable(e) == e.c \notin PermanentCodes

\* Mutant: every errno is retryable.
ErrnoRetryable_Any(e) == TRUE

\* case syscall.Errno.
ErrnoRetryable(e) == e.c # "ECONNREFUSED"

\* Mutant: the io.EOF test is missing, the inner error is always classified.
URLRetryable_NoShortCircuit(e) == isRetryable(e.k[1])

\* Mutant: the io.EOF test is made on the cause of the inner error.
URLRetryable_CauseFirst(e) ==
    IF Cause(e.k[1]) = EOF THEN TRUE ELSE isRetryable(e.k[1])

\* case *url.Error.
URLRetryable(e) == IF e.k[1] = EOF THEN TRUE ELSE isRetryable(e.k[1])

\* Mutant: the loop returns the classification of the first member it visits.
AllRetryable_First(ms, i) == IF i > Len(ms) THEN TRUE ELSE isRetryable(ms[i])

\* Mutant: an aggregate without members is not retryable.
AllRetryable_NonEmpty(ms, i) ==
    Len(ms) > 0 /\ \A j \in i .. Len(ms) : isRetryable(ms[j])

\* The loops over the members of an aggregate, from index i on.
AllRetryable(ms, i) ==
    IF i > Len(ms) THEN TRUE
    ELSE IF ~isRetryable(ms[i]) THEN FALSE
    ELSE AllRetryable(ms, i + 1)

\* Mutant: a network-operation error is retryable whatever it holds.
isRetryable_OpAlways(e0) ==
    LET e == Cause(e0) IN
    IF e = Canceled \/ e = DeadlineExceeded THEN FALSE
    ELSE CASE e.t = "coded" -> CodedRetryable(e)
           [] e.t = "op"    -> TRUE
           [] e.t = "url"   -> URLRetryable(e)
           [] e.t = "errno" -> ErrnoRetryable(e)
           [] e.t = "errs"  -> AllRetryable(e.k, 1)
           [] e.t = "multi" -> AllRetryable(e.k, 1)
           [] e.t = "wrap"  -> isRetryable(e.k[1])
           [] OTHER         -> FALSE

\* Mutant: an error of no recognized type is retryable.
isRetryable_DefaultTrue(e0) ==
    LET e == Cause(e0) IN
    IF e = Canceled \/ e = DeadlineExceeded THEN FALSE
    ELSE CASE e.t = "coded" -> CodedRetryable(e)
           [] e.t = "op"    -> isRetryable(e.k[1])
           [] e.t = "url"   -> URLRetryable(e)
           [] e.t = "errno" -> ErrnoRetryable(e)
           [] e.t = "errs"  -> AllRetryable(e.k, 1)
           [] e.t = "multi" -> AllRetryable(e.k, 1)
           [] e.t = "wrap"  -> isRetryable(e.k[1])
           [] OTHER         -> TRUE

isRetryable(e0) ==
    LET e == Cause(e0) IN
    IF e = Canceled \/ e = DeadlineExceeded THEN FALSE
    ELSE CASE e.t = "coded" -> CodedRetryable(e)
           [] e.t = "op"    -> isRetryable(e.k[1])
           [] e.t = "url"   -> URLRetryable(e)
           [] e.t = "errno" -> ErrnoRetryable(e)
           [] e.t = "errs"  -> AllRetryable(e.k, 1)
           [] e.t = "multi" -> AllRetryable(e.k, 1)
           [] e.t = "wrap"  -> isRetryable(e.k[1])
           [] OTHER         -> FALSE

\* The members an aggregate loop hands to isRetryable: each one up to and
\* including the first that is not retryable.
Visited(ms) ==
    {ms[i] : i \in {j \in 1 .. Len(ms) : \A h \in 1 .. j - 1 : isRetryable(ms[h])}}

\* Mutant: the Unwrap case calls isRetryable on the error itself.
Calls_Self(e0) ==
    LET e == Cause(e0) IN
    IF e = Canceled \/ e = DeadlineExceeded THEN {}
    ELSE CASE e.t = "op"    -> {e.k[1]}
           [] e.t = "url"   -> IF e.k[1] = EOF THEN {} ELSE {e.k[1]}
           [] e.t = "errs"  -> Visited(e.k)
           [] e.t = "multi" -> Visited(e.k)
           [] e.t = "wrap"  -> {e}
           [] OTHER         -> {}

\* The arguments of the recursive calls that isRetryable(e0) makes itself
\* (lines 61, 66, 72, 80 and 87).
Calls(e0) ==
    LET e == Cause(e0) IN
    IF e = Canceled \/ e = DeadlineExceeded THEN {}
    ELSE CASE e.t = "op"    -> {e.k[1]}
           [] e.t = "url"   -> IF e.k[1] = EOF THEN {} ELSE {e.k[1]}
           [] e.t = "errs"  -> Visited(e.k)
           [] e.t = "multi" -> Visited(e.k)
           [] e.t = "wrap"  -> {e.k[1]}
           [] OTHER         -> {}

----------------------------------------------------------------------------
(* time.Duration arithmetic of the delay.                                  *)
(* A Duration is a 64-bit signed count of nanoseconds.  The values the     *)
(* loop computes are m * 2^e with a small m, and are kept as [m, e]: the   *)
(* product is reduced modulo 2^64 to the signed range exactly as the       *)
(* machine multiplication does it.                                         *)

IntBits == 64
SecondMant == 1953125     \* time.Second = 10^9 ns = 1953125 * 2^9
SecondExp == 9

\* m * 2^e as an int64, for 0 <= m < 2^30.
Wrap64(m, e) ==
    IF e >= IntBits THEN [m |-> 0, e |-> 0]
    ELSE LET w == IntBits - e IN
         IF w > 30 THEN [m |-> m, e |-> e]
         ELSE LET r == m % (2 ^ w) IN
              IF r = 0 THEN [m |-> 0, e |-> 0]
              ELSE IF r >= 2 ^ (w - 1) THEN [m |-> r - 2 ^ w, e |-> e]
              ELSE [m |-> r, e |-> e]

\* int(math.Pow(2, float64(attempt))): exact for 0 <= attempt <= 62.
PowInt(a) == [m |-> 1, e |-> a]

\* time.Duration(int(math.Pow(2, float64(attempt)))) * time.Second
Delay(a) == Wrap64(PowInt(a).m * SecondMant, PowInt(a).e + SecondExp)

\* The duration of exactly 2^a seconds.
Seconds2(a) == [m |-> SecondMant, e |-> a + SecondExp]

ZeroDuration == [m |-> 0, e |-> 0]

----------------------------------------------------------------------------
(* RetryIfNecessary *)

\* The failures the operation of a run may return.
OpErrs ==
    { Coded("UNAUTHORIZED"), Coded("TOOMANYREQUESTS"),
      Errno("ECONNREFUSED"), Errno("ECONNRESET"), Errno("ETIMEDOUT"),
      URLError(EOF), OpError(Errno("ETIMEDOUT")),
      WithCause(Coded("MANIFEST_UNKNOWN")), Errors(<<>>), MultiError(<<>>),
      Canceled, Plain, EOF, OpError(Nil), WithCause(Wrapped(Plain)) }

BoolStr(b) == IF b THEN "true" ELSE "false"

\* What invocation number n of the operation may return.
Results(n) == IF opFails = -1 \/ n <= opFails THEN OpErrs ELSE {Nil}

\* Mutants of the loop condition: the bound compared with <=, the bound one
\* too small, and the classification left out.
LoopCondition_OffByOne == err # Nil /\ isRetryable(err) /\ attempt <= MaxRetry
LoopCondition_Strict == err # Nil /\ isRetryable(err) /\ attempt + 1 < MaxRetry
LoopCondition_NoClassify == err # Nil /\ attempt < MaxRetry

\* The loop condition, line 27.
LoopCondition == err # Nil /\ isRetryable(err) /\ attempt < MaxRetry

\* The value a return statement hands back when the local err holds e.
Returned(e) == e

InitLoop ==
    /\ MaxRetry \in -1 .. MaxRetryBound
    /\ opFails \in -1 .. MaxFails
    /\ pc = "call"
    /\ attempt = 0
    /\ err = NoValue
    /\ ret = NoValue
    /\ delay = ZeroDuration
    /\ ctxDone \in BOOLEAN
    /\ invoked = 0
    /\ inflight = 0
    /\ notices = 0
    /\ waits = 0
    /\ lastRes = NoValue
    /\ allRetry = TRUE
    /\ sameRes = TRUE
    /\ firedAt = IF ctxDone THEN "before" ELSE "never"
    /\ invokedAtFire = 0
    /\ cancelRet = FALSE

Init ==
    /\ InitLoop
    /\ verdict = "none"
    /\ cerr = NoValue
    /\ steps = 0

\* operation() is called: line 26, and line 36 in the loop body.
Invoke ==
    /\ pc = "call"
    /\ pc' = "running"
    /\ invoked' = invoked + 1
    /\ inflight' = inflight + 1
    /\ UNCHANGED <<MaxRetry, opFails, attempt, err, ret, delay, ctxDone, notices,
                   waits, lastRes, allRetry, sameRes, firedAt, invokedAtFire, cancelRet,
                   verdict, cerr, steps>>

\* operation() returns and err is assigned; after line 36 the post
\* statement attempt++ runs before the condition is evaluated again.
OperationReturn ==
    /\ pc = "running"
    /\ \E r \in Results(invoked) :
          /\ err' = r
          /\ lastRes' = r
          /\ allRetry' = (allRetry /\ (r = Nil \/ isRetryable(r)))
          /\ sameRes' = (sameRes /\ (invoked = 1 \/ r = lastRes))
    /\ attempt' = IF invoked = 1 THEN 0 ELSE attempt + 1
    /\ inflight' = inflight - 1
    /\ pc' = "check"
    /\ UNCHANGED <<MaxRetry, opFails, ret, delay, ctxDone, invoked, notices,
                   waits, firedAt, invokedAtFire, cancelRet, verdict, cerr, steps>>

\* Mutant: the notice is not emitted.
LoopEnter_NoNotice ==
    /\ pc = "check"
    /\ err # Nil /\ isRetryable(err) /\ attempt < MaxRetry
    /\ verdict' = BoolStr(isRetryable(err))
    /\ delay' = Delay(attempt)
    /\ waits' = waits + 1
    /\ pc' = "select"
    /\ UNCHANGED <<MaxRetry, opFails, attempt, err, ret, ctxDone, invoked, inflight, notices,
                   lastRes, allRetry, sameRes, firedAt, invokedAtFire, cancelRet,
                   cerr, steps>>

\* The condition holds: lines 28 and 29, then the select is entered.
LoopEnter ==
    /\ pc = "check"
    /\ LoopCondition
    /\ verdict' = BoolStr(isRetryable(err))
    /\ delay' = Delay(attempt)
    /\ notices' = notices + 1
    /\ waits' = waits + 1
    /\ pc' = "select"
    /\ UNCHANGED <<MaxRetry, opFails, attempt, err, ret, ctxDone, invoked, inflight,
                   lastRes, allRetry, sameRes, firedAt, invokedAtFire, cancelRet, cerr, steps>>

\* The condition fails: return err, line 38.
LoopExit ==
    /\ pc = "check"
    /\ ~LoopCondition
    /\ verdict' = IF err # Nil THEN BoolStr(isRetryable(err)) ELSE verdict
    /\ ret' = Returned(err)
    /\ pc' = "done"
    /\ UNCHANGED <<MaxRetry, opFails, attempt, err, delay, ctxDone, invoked, inflight,
                   notices, waits, lastRes, allRetry, sameRes, firedAt, invokedAtFire,
                   cancelRet, cerr, steps>>

\* The select finds no case ready and blocks: the timer of a positive delay
\* has not fired and ctx is not done.
SelectPark ==
    /\ pc = "select"
    /\ ~ctxDone
    /\ delay.m > 0
    /\ pc' = "wait"
    /\ UNCHANGED <<MaxRetry, opFails, attempt, err, ret, delay, ctxDone, invoked, inflight,
                   notices, waits, lastRes, allRetry, sameRes, firedAt, invokedAtFire,
                   cancelRet, verdict, cerr, steps>>

\* Mutant: the timer case is taken whether or not ctx is done.
SelectTimer_IgnoresCtx ==
    /\ pc \in {"select", "wait"}
    /\ pc' = "call"
    /\ UNCHANGED <<MaxRetry, opFails, attempt, err, ret, delay, ctxDone, invoked, inflight,
                   notices, waits, lastRes, allRetry, sameRes, firedAt, invokedAtFire,
                   cancelRet, verdict, cerr, steps>>

\* Mutant: after the timer case the select is entered again (the break of
\* line 32 leaves only the select, as it would inside an inner loop).
SelectTimer_Rearm ==
    /\ \/ pc = "select" /\ delay.m <= 0
       \/ pc = "wait" /\ ~ctxDone
    /\ pc' = "select"
    /\ UNCHANGED <<MaxRetry, opFails, attempt, err, ret, delay, ctxDone, invoked, inflight,
                   notices, waits, lastRes, allRetry, sameRes, firedAt, invokedAtFire,
                   cancelRet, verdict, cerr, steps>>

\* case <-time.After(delay): taken when the select is entered with a delay
\* that is not positive (the timer is ready at once), or when the timer is
\* the first to wake the blocked select.  Line 36 follows.
SelectTimer ==
    /\ \/ pc = "select" /\ delay.m <= 0
       \/ pc = "wait" /\ ~ctxDone
    /\ pc' = "call"
    /\ UNCHANGED <<MaxRetry, opFails, attempt, err, ret, delay, ctxDone, invoked, inflight,
                   notices, waits, lastRes, allRetry, sameRes, firedAt, invokedAtFire,
                   cancelRet, verdict, cerr, steps>>

\* Mutant: the ctx.Done() case returns ctx.Err().
SelectDone_CtxErr ==
    /\ pc \in {"select", "wait"}
    /\ ctxDone
    /\ ret' = Canceled
    /\ cancelRet' = TRUE
    /\ pc' = "done"
    /\ UNCHANGED <<MaxRetry, opFails, attempt, err, delay, ctxDone, invoked, inflight,
                   notices, waits, lastRes, allRetry, sameRes, firedAt, invokedAtFire,
                   verdict, cerr, steps>>

\* case <-ctx.Done(): return err, line 34.  Taken when ctx is done as the
\* select is entered, or when it wakes the blocked select.
SelectDone ==
    /\ pc \in {"select", "wait"}
    /\ ctxDone
    /\ ret' = Returned(err)
    /\ cancelRet' = TRUE
    /\ pc' = "done"
    /\ UNCHANGED <<MaxRetry, opFails, attempt, err, delay, ctxDone, invoked, inflight,
                   notices, waits, lastRes, allRetry, sameRes, firedAt, invokedAtFire,
                   verdict, cerr, steps>>

\* The caller's context is cancelled or its deadline passes.
Cancel ==
    /\ ~ctxDone
    /\ ctxDone' = TRUE
    /\ firedAt' = pc
    /\ invokedAtFire' = invoked
    /\ UNCHANGED <<MaxRetry, opFails, pc, attempt, err, ret, delay, invoked, inflight,
                   notices, waits, lastRes, allRetry, sameRes, cancelRet, verdict, cerr, steps>>

Next ==
    \/ Invoke
    \/ OperationReturn
    \/ LoopEnter
    \/ LoopExit
    \/ SelectPark
    \/ SelectTimer
    \/ SelectDone
    \/ Cancel

Spec == Init /\ [][Next]_vars

\* The steps of RetryIfNecessary itself: every step but the cancellation.
Step ==
    \/ Invoke
    \/ OperationReturn
    \/ LoopEnter
    \/ LoopExit
    \/ SelectPark
    \/ SelectTimer
    \/ SelectDone

\* The goroutine keeps running: every invocation of the operation returns,
\* every timer fires unless the select is woken by ctx first.
SpecFair == Spec /\ WF_vars(Step)

----------------------------------------------------------------------------
(* Claims about RetryIfNecessary, checked under Spec *)

\* C1: with MaxRetry = n >= 0, an operation that fails on every invocation
\* with a retryable error and a cancellation signal that never fires, the
\* operation is invoked exactly n+1 times and the failure of the last
\* invocation is returned.
C1_ExhaustedRetries ==
    (pc = "done" /\ MaxRetry >= 0 /\ opFails = -1 /\ allRetry /\ ~ctxDone)
        => (invoked = MaxRetry + 1 /\ ret = lastRes /\ ret # Nil)

C1_Witness ==
    /\ pc = "done" /\ MaxRetry = 3 /\ opFails = -1 /\ allRetry /\ ~ctxDone
    /\ invoked = 4 /\ ret = lastRes

\* C2 as stated: an operation whose first k invocations fail (with any
\* error) and whose next one succeeds, with MaxRetry >= k and no
\* cancellation, makes the loop return nil after exactly k+1 invocations.
C2_AnyFailureThenSuccess ==
    (pc = "done" /\ opFails >= 0 /\ MaxRetry >= opFails /\ ~ctxDone)
        => (ret = Nil /\ invoked = opFails + 1)

\* C2, amended: when the first k invocations fail with retryable errors and
\* the next one succeeds, with MaxRetry >= k and no cancellation, the loop
\* returns nil after exactly k+1 invocations.
C2_RetryableFailuresThenSuccess ==
    (pc = "done" /\ opFails >= 0 /\ MaxRetry >= opFails /\ allRetry /\ ~ctxDone)
        => (ret = Nil /\ invoked = opFails + 1)

C2_Witness ==
    /\ pc = "done" /\ opFails = 2 /\ MaxRetry = 2 /\ allRetry /\ ~ctxDone
    /\ ret = Nil /\ invoked = 3

\* A result that ends the loop: success, or an error classified non-retryable.
Final(r) == r # NoValue /\ (r = Nil \/ ~isRetryable(r))

\* C3: once an invocation has returned success or a non-retryable error, the
\* loop only returns that result: no wait and no notice follow it (every
\* wait and notice so far preceded an invocation), the operation is not
\* invoked again, and a first call that ends this way gives one invocation
\* and no delay.
C3_StopsAtFinalResult ==
    Final(lastRes) =>
        /\ pc \in {"check", "done"}
        /\ waits = invoked - 1
        /\ notices = invoked - 1
        /\ (pc = "done" => ret = lastRes /\ ~cancelRet)

C3_Witness ==
    /\ pc = "done" /\ MaxRetry = 5 /\ invoked = 1 /\ waits = 0 /\ notices = 0
    /\ lastRes = Coded("UNAUTHORIZED") /\ ret = lastRes

\* C4: when the cancellation signal fires while the loop is waiting before a
\* re-invocation, the loop returns the error of the preceding invocation and
\* the operation is not invoked again.
C4_CancelDuringWait ==
    firedAt = "wait" =>
        /\ pc \in {"wait", "done"}
        /\ invoked = invokedAtFire
        /\ (pc = "done" => ret = lastRes /\ ret # Nil /\ cancelRet)

C4_Witness ==
    /\ firedAt = "wait" /\ pc = "done" /\ invoked = 1 /\ MaxRetry >= 1
    /\ attempt = 0 /\ ret = lastRes /\ ret # Nil

\* C5: on every path the returned value is the value the most recent
\* invocation of the operation returned.
C5_ReturnsLastResult == pc = "done" => ret = lastRes

C5_Witness ==
    /\ pc = "done" /\ cancelRet /\ invoked = 2 /\ ret = lastRes
    /\ ret = Errno("ECONNRESET")

\* C6 as stated: in every execution the number of notices equals the number
\* of re-invocations, also when the loop gives up on cancellation.
C6_NoticePerRetry == pc = "done" => notices = invoked - 1

\* C6, amended: the number of notices equals the number of re-invocations,
\* plus one when the loop returns from the cancellation case of the select:
\* the notice is emitted before the wait.
C6_NoticePerWait ==
    pc = "done" => notices = (invoked - 1) + (IF cancelRet THEN 1 ELSE 0)

C6_Witness == pc = "done" /\ cancelRet /\ invoked = 2 /\ notices = 2

\* C7: for every attempt the loop reaches, the delay waited before the
\* re-invocation is exactly 2^attempt seconds, and positive.
C7_DelayIsPowerOfTwo ==
    pc \in {"select", "wait"} => (delay = Seconds2(attempt) /\ delay.m > 0)

\* C10: a raw errno is classified non-retryable when it is connection
\* refused and retryable otherwise, and an operation that keeps failing with
\* connection refused is invoked exactly once.
C10_Errno ==
    /\ (pc # "check" /\ err.t = "errno") => verdict = BoolStr(err.c # "ECONNREFUSED")
    /\ (sameRes /\ lastRes = Errno("ECONNREFUSED"))
           => (invoked = 1 /\ pc \in {"check", "done"})

C10_Witness ==
    /\ pc = "done" /\ MaxRetry = 3 /\ opFails = -1 /\ sameRes /\ invoked = 1
    /\ lastRes = Errno("ECONNREFUSED") /\ verdict = "false"

\* C12: when every invocation of the operation returns and every wait
\* elapses or is cut by cancellation, RetryIfNecessary eventually returns.
C12_Terminates == <>(pc = "done")

C12_Witness ==
    /\ pc = "done" /\ MaxRetry = MaxRetryBound /\ opFails = -1
    /\ invoked = MaxRetry + 1 /\ ctxDone /\ firedAt = "running"

\* C13 as stated: for MaxRetry >= 0, in every state after the first call
\* the invocations started are at most MaxRetry + 1 and equal the attempt
\* counter plus one, and at most one invocation is in flight.
C13_CountsInEveryState ==
    (MaxRetry >= 0 /\ invoked >= 1) =>
        /\ invoked <= MaxRetry + 1
        /\ invoked = attempt + 1
        /\ inflight <= 1

\* C13, amended: for MaxRetry >= 0 the invocations started are at most
\* MaxRetry + 1 and at most one is in flight; they equal the attempt counter
\* plus one except while a re-invocation is in flight, where they equal the
\* attempt counter plus two (attempt++ runs after operation() has returned).
C13_Counts ==
    (MaxRetry >= 0 /\ invoked >= 1) =>
        /\ invoked <= MaxRetry + 1
        /\ inflight <= 1
        /\ inflight = (IF pc = "running" THEN 1 ELSE 0)
        /\ (pc = "running" /\ invoked >= 2) => invoked = attempt + 2
        /\ ~(pc = "running" /\ invoked >= 2) => invoked = attempt + 1

C13_Witness ==
    /\ pc = "running" /\ MaxRetry = 3 /\ invoked = 4 /\ attempt = 2
    /\ inflight = 1 /\ ctxDone

\* An error that reduces to a value of no recognized type: following
\* causal wrappers, and the inner errors that isRetryable recurses into.
RECURSIVE NoRecognizedShape(_)
NoRecognizedShape(e) ==
    \/ e.t \in {"nil", "ctx", "eof", "plain"}
    \/ e.t \in {"cause", "op", "wrap"} /\ NoRecognizedShape(e.k[1])
    \/ e.t = "url" /\ e.k[1] # EOF /\ NoRecognizedShape(e.k[1])

\* C15: an error whose root cause has none of the recognized shapes, also a
\* nil inner error reached by recursion, is non-retryable, and an operation
\* that returns such an error is invoked exactly once.
C15_UnrecognizedIsFinal ==
    /\ (pc # "check" /\ err \notin {NoValue, Nil} /\ NoRecognizedShape(err))
           => verdict = "false"
    /\ (sameRes /\ lastRes \notin {NoValue, Nil} /\ NoRecognizedShape(lastRes))
           => (invoked = 1 /\ pc \in {"check", "done"})

C15_Witness ==
    /\ pc = "done" /\ MaxRetry = 3 /\ opFails = -1 /\ invoked = 1
    /\ lastRes = OpError(Nil) /\ ret = lastRes /\ verdict = "false"

\* C18 as stated: the invocation in flight completes and a success returns
\* nil, and once the signal has fired no invocation is started beyond the
\* unconditional first one.
C18_NoInvocationAfterSignal ==
    /\ (pc = "done" /\ lastRes = Nil) => ret = Nil
    /\ ctxDone => invoked <= (IF invokedAtFire = 0 THEN 1 ELSE invokedAtFire)

\* C18, amended: the signal is consulted only in the select.  The first
\* invocation is started and an invocation in flight completes also when
\* the signal has fired, and a success then returns nil; the loop returns
\* on cancellation only out of the select; a select entered or blocked with
\* a positive delay after the signal has fired returns the last error and
\* starts no invocation.
C18_SignalOnlyInSelect ==
    [][ /\ (pc = "call" /\ invoked = 0 /\ pc' # pc) => pc' = "running"
        /\ (pc = "running" /\ pc' # pc) => (pc' = "check" /\ err' = lastRes')
        /\ (pc = "check" /\ err = Nil /\ pc' # pc) => (pc' = "done" /\ ret' = Nil)
        /\ (pc # "done" /\ pc' = "done" /\ cancelRet') => pc \in {"select", "wait"}
        /\ (ctxDone /\ pc \in {"select", "wait"} /\ delay.m > 0 /\ pc' # pc)
               => (pc' = "done" /\ ret' = err /\ invoked' = invoked)
      ]_vars

C18_Witness ==
    /\ pc = "done" /\ firedAt = "running" /\ invokedAtFire = 2 /\ invoked = 2
    /\ ret = Nil

\* The aggregates without members.
EmptyAggregates == {Errors(<<>>), MultiError(<<>>)}

\* C20: an aggregate with zero members, of either representation, is
\* retryable, and an operation that keeps returning one is invoked
\* MaxRetry + 1 times when the cancellation signal does not fire.
C20_EmptyAggregate ==
    /\ (pc # "check" /\ err \in EmptyAggregates) => verdict = "true"
    /\ (pc = "done" /\ MaxRetry >= 0 /\ sameRes /\ lastRes \in EmptyAggregates
            /\ ~ctxDone)
           => (invoked = MaxRetry + 1 /\ ret = lastRes)

C20_Witness ==
    /\ pc = "done" /\ MaxRetry = 2 /\ sameRes /\ lastRes = MultiError(<<>>)
    /\ invoked = 3 /\ ~ctxDone /\ verdict = "true"

----------------------------------------------------------------------------
(* isRetryable on constructed error values: a caller builds an error value *)
(* step by step and hands it to isRetryable.                               *)

Leaves ==
    {Nil, Canceled, DeadlineExceeded, EOF, Plain, Errors(<<>>), MultiError(<<>>)}
        \cup {Coded(c) : c \in Codes} \cup {Errno(c) : c \in Errnos}

\* The errors added to an aggregate beside the one under construction.
Members == {Coded("DENIED"), Coded("UNAUTHORIZED"), Errno("ECONNRESET"), Plain}

IsAggregate(e) == e.t \in {"errs", "multi"}

InitClassify ==
    /\ MaxRetry = 0
    /\ opFails = 0
    /\ pc = "classify"
    /\ attempt = 0
    /\ err = NoValue
    /\ ret = NoValue
    /\ delay = ZeroDuration
    /\ ctxDone = FALSE
    /\ invoked = 0
    /\ inflight = 0
    /\ notices = 0
    /\ waits = 0
    /\ lastRes = NoValue
    /\ allRetry = TRUE
    /\ sameRes = TRUE
    /\ firedAt = "never"
    /\ invokedAtFire = 0
    /\ cancelRet = FALSE
    /\ verdict = "none"
    /\ cerr \in Leaves
    /\ steps = 0

Build(e) ==
    /\ pc = "classify"
    /\ verdict = "none"
    /\ steps < MaxSteps
    /\ cerr' = e
    /\ steps' = steps + 1
    /\ UNCHANGED <<loopVars, verdict>>

WrapCause == Build(WithCause(cerr))
WrapUnwrap == Build(Wrapped(cerr))
WrapOpError == Build(OpError(cerr))
WrapURLError == Build(URLError(cerr))
GroupErrors == Build(Errors(<<cerr>>))
GroupMulti == Build(MultiError(<<cerr>>))

AppendMember ==
    /\ IsAggregate(cerr)
    /\ Len(cerr.k) < MaxMembers
    /\ \E m \in Members : Build(Node(cerr.t, Append(cerr.k, m)))

PrependMember ==
    /\ IsAggregate(cerr)
    /\ Len(cerr.k) < MaxMembers
    /\ \E m \in Members : Build(Node(cerr.t, <<m>> \o cerr.k))

Classify ==
    /\ pc = "classify"
    /\ verdict = "none"
    /\ verdict' = BoolStr(isRetryable(cerr))
    /\ UNCHANGED <<loopVars, cerr, steps>>

NextClassify ==
    \/ WrapCause
    \/ WrapUnwrap
    \/ WrapOpError
    \/ WrapURLError
    \/ GroupErrors
    \/ GroupMulti
    \/ AppendMember
    \/ PrependMember
    \/ Classify

SpecClassify == InitClassify /\ [][NextClassify]_vars

----------------------------------------------------------------------------
(* Claims about isRetryable, checked under SpecClassify *)

\* C8: an aggregate of either representation is retryable if every member
\* is retryable and non-retryable if at least one member is not, whatever
\* the position of that member.
C8_Aggregate ==
    (verdict # "none" /\ IsAggregate(cerr))
        => verdict = BoolStr(\A i \in 1 .. Len(cerr.k) : isRetryable(cerr.k[i]))

C8_Witness ==
    /\ verdict = "false" /\ cerr.t = "multi" /\ Len(cerr.k) = 3
    /\ isRetryable(cerr.k[1]) /\ isRetryable(cerr.k[2]) /\ ~isRetryable(cerr.k[3])

\* The coded error under n >= 0 causal wrappers, NoValue for any other error.
RECURSIVE CodedUnder(_)
CodedUnder(e) ==
    IF e.t = "coded" THEN e
    ELSE IF e.t = "cause" THEN CodedUnder(e.k[1])
    ELSE NoValue

\* C9: a coded error, bare or under any depth of causal wrapping, is
\* non-retryable when its code is unauthorized, name unknown or manifest
\* unknown, and retryable for every other code.
C9_Coded ==
    (verdict # "none" /\ CodedUnder(cerr) # NoValue)
        => verdict = BoolStr(CodedUnder(cerr).c \notin
                                {"UNAUTHORIZED", "NAME_UNKNOWN", "MANIFEST_UNKNOWN"})

C9_Witness ==
    /\ verdict = "false"
    /\ cerr = WithCause(WithCause(Coded("MANIFEST_UNKNOWN")))

\* C11: a URL error whose inner error is exactly io.EOF is retryable (the
\* inner error itself is not: it is not classified); for any other inner
\* error the URL error is classified as its inner error is.
C11_URLError ==
    (verdict # "none" /\ cerr.t = "url") =>
        /\ cerr.k[1] = EOF => (verdict = "true" /\ ~isRetryable(cerr.k[1]))
        /\ cerr.k[1] # EOF => verdict = BoolStr(isRetryable(cerr.k[1]))

C11_Witness == verdict = "true" /\ cerr = URLError(EOF)

\* An error that is context.Canceled or context.DeadlineExceeded, or holds
\* one: under wrappers of any kind, or as a member of an aggregate.
RECURSIVE HoldsCtx(_)
HoldsCtx(e) ==
    \/ e \in {Canceled, DeadlineExceeded}
    \/ e.t \in {"cause", "wrap", "op", "url"} /\ HoldsCtx(e.k[1])
    \/ e.t \in {"errs", "multi"} /\ \E i \in 1 .. Len(e.k) : HoldsCtx(e.k[i])

\* C14: context.Canceled and context.DeadlineExceeded are non-retryable,
\* also under causal wrapping, in a network-operation error, a URL error or
\* a generic wrapper, and an aggregate containing one is non-retryable.
C14_ContextErrors == (verdict # "none" /\ HoldsCtx(cerr)) => verdict = "false"

C14_Witness ==
    /\ verdict = "false"
    /\ cerr = MultiError(<<Coded("DENIED"), OpError(WithCause(DeadlineExceeded))>>)

\* The number of error values in a structure.
RECURSIVE Size(_)
RECURSIVE SizeFrom(_, _)
Size(e) == 1 + SizeFrom(e.k, 1)
SizeFrom(ms, i) == IF i > Len(ms) THEN 0 ELSE Size(ms[i]) + SizeFrom(ms, i + 1)

\* C16: isRetryable returns a boolean on every constructed (finite, acyclic)
\* error value, and every recursive call it makes is on a strictly smaller
\* part of its argument.
C16_Terminates ==
    /\ verdict \in {"none", "true", "false"}
    /\ verdict = "none" => ENABLED Classify
    /\ \A c \in Calls(cerr) : Size(c) < Size(cerr)

C16_Witness ==
    /\ verdict = "true" /\ steps = 3 /\ cerr.t = "wrap"
    /\ cerr.k[1].t = "multi" /\ Len(cerr.k[1].k) = 2
    /\ Calls(cerr) = {cerr.k[1]}

\* An error without the causal, generic and network-operation wrappers
\* around it.
RECURSIVE Core(_)
Core(e) == IF e.t \in {"cause", "wrap", "op"} THEN Core(e.k[1]) ELSE e

\* C17: an error under causal wrappers, generic wrappers and
\* network-operation errors, at any depth and in any mix, is classified as
\* the error without them.
C17_WrapperInvariance ==
    (verdict # "none" /\ cerr.t \in {"cause", "wrap", "op"})
        => verdict = BoolStr(isRetryable(Core(cerr)))

C17_Witness ==
    /\ verdict = "true"
    /\ cerr = WithCause(OpError(Wrapped(WithCause(Coded("DENIED")))))

\* How a chain of wrappers ends in io.EOF: "no" (it does not), "bare" (the
\* error is io.EOF), "url" (io.EOF is the inner error of a URL error),
\* "other" (io.EOF is the inner error of another wrapper).
RECURSIVE EOFChain(_)
EOFChain(e) ==
    IF e = EOF THEN "bare"
    ELSE IF e.t \in {"cause", "wrap", "op", "url"}
    THEN LET r == EOFChain(e.k[1]) IN
         IF r = "bare" THEN (IF e.t = "url" THEN "url" ELSE "other") ELSE r
    ELSE "no"

\* C19: io.EOF is retryable only as the direct inner error of a URL error:
\* bare, directly inside a network-operation error, or wrapped (causally or
\* generically) inside a URL error it is non-retryable.
C19_EOFOnlyInURLError ==
    (verdict # "none" /\ EOFChain(cerr) # "no")
        => verdict = BoolStr(EOFChain(cerr) = "url")

C19_Witness == verdict = "false" /\ cerr = URLError(WithCause(EOF))

====
